---- MODULE Spec2Model ----
(***************************************************************************)
(* Model of the Tello-Attention program: the EEG processing generator      *)
(* AttentionHandler.process_data (src/attention_handler.py), the worker    *)
(* MainApplication.processing_data that turns its command codes into calls *)
(* on the shared TelloController, and the Tk/matplotlib handlers that run   *)
(* beside it (src/main.py).                                                *)
(*                                                                         *)
(* Numbers.  The code computes in floats.  The model computes exactly, in  *)
(* units of 1/Unit: 0.6 is 24, 1 is 40, 20 is 800.  Every input value is a *)
(* multiple of 4 units (a tenth), so value*0.5 and value*0.25 are exact.   *)
(***************************************************************************)
EXTENDS Integers, Sequences, FiniteSets, TLC

\* ------------------------------------------------------------------ bounds

\* Worker threads that handle_data may start (one per configuration submission).
MaxWorkers == 2
\* Chunks the sensor source may hold queued in one inlet.
MaxQueue == 1
\* Inputs of the pure functions: values m*T + d tenths, m in 0..MaxMult,
\* d in -MaxDelta..MaxDelta, around each threshold T.
MaxMult == 5
MaxDelta == 1
\* Spectra given to non_maximum_suppression: up to MaxLen bins with powers in
\* 0..MaxPower, and window_size in 1..MaxRadius.
MaxLen == 5
MaxPower == 2
MaxRadius == 2

\* ------------------------------------------------------- numeric constants

\* Units per 1.0 (4 makes the quarter exact, 10 gives tenths).
Unit == 4 * 10
Tenth == Unit \div 10

\* AttentionHandler.__init__: self.alpha_threshold = 0.6, self.beta_threshold = 20
alpha_threshold == 6 * Tenth
beta_threshold == 20 * Unit
\* signal_scaling's guards: 1 < self.alpha_threshold, 50 < self.beta_threshold
AlphaGuard == 1 * Unit
BetaGuard == 50 * Unit

\* The handler object as far as the pure functions read it.
DefaultSelf == [alpha_threshold |-> alpha_threshold, beta_threshold |-> beta_threshold]

\* ---------------------------------------------------------- pure functions

\* A piece of signal_scaling with the upper breakpoint mistyped as 3T.
ScalePieceBreak3(T, value) ==
    IF 2 * T < value /\ value < 3 * T THEN value \div 2 + Unit
    ELSE IF 3 * T < value THEN value \div 4 + Unit
    ELSE value

\* signal_scaling, lines 120-123 / 127-130: the piecewise compression of one
\* band.  A value equal to 4T matches neither comparison and is left as it is.
ScalePiece(T, value) ==
    IF 2 * T < value /\ value < 4 * T THEN value \div 2 + Unit
    ELSE IF 4 * T < value THEN value \div 4 + Unit
    ELSE value

\* signal_scaling(self, type, value), lines 118-134.  The guarded statement
\* assigns T + 1, whatever the value was.
signal_scaling(self, type, value) ==
    IF type = "beta"
    THEN LET v == ScalePiece(self.beta_threshold, value)
         IN  IF BetaGuard < self.beta_threshold THEN self.beta_threshold + Unit ELSE v
    ELSE LET v == ScalePiece(self.alpha_threshold, value)
         IN  IF AlphaGuard < self.alpha_threshold THEN self.alpha_threshold + Unit ELSE v

\* The classification with the both-dominant rule tried first.
ClassifyBothFirst(self, alpha_power, beta_power) ==
    IF alpha_power > self.alpha_threshold /\ beta_power > self.beta_threshold THEN 3
    ELSE IF alpha_power > self.alpha_threshold THEN 1
    ELSE IF beta_power > self.beta_threshold /\ alpha_power < self.alpha_threshold THEN 2
    ELSE 4

\* threshold_based_classification(self, alpha_power, beta_power), lines 136-145.
threshold_based_classification(self, alpha_power, beta_power) ==
    IF alpha_power > self.alpha_threshold THEN 1
    ELSE IF beta_power > self.beta_threshold /\ alpha_power < self.alpha_threshold THEN 2
    ELSE IF alpha_power > self.alpha_threshold /\ beta_power > self.beta_threshold THEN 3
    ELSE 4

\* process_data, lines 169-181: the two band powers are scaled, then classified.
CommandOf(self, alpha_raw, beta_raw) ==
    threshold_based_classification(self,
        signal_scaling(self, "alpha", alpha_raw),
        signal_scaling(self, "beta", beta_raw))

\* ------------------------------------------------------------------- inputs

Workers == 1..MaxWorkers

\* (lower, upper) cutoffs a configuration submission may carry; fs = 125, so
\* the Nyquist frequency is 62.5 and <<50, 5>> is no valid band for butter().
BandInputs == {<<5, 50>>, <<50, 5>>}
\* mode_index values the mode selector widget may report.
ModeInputs == {1, 2, 3}
\* Keys of the matplotlib window (on_key_press) and of the Tk root (bindings).
FigureKeys == {"escape", "x"}
BoundKeys == {"Up", "f"}
\* Band powers of a chunk before scaling (relative alpha, absolute beta).
AlphaInputs == {3 * Tenth, 8 * Tenth, 16 * Tenth}
BetaInputs == {5 * Unit, 25 * Unit, 60 * Unit}
\* What a pulled, non-empty chunk can be for the processing of lines 160-173.
ChunkConds == {"ok", "short", "degenerate", "zero_power"}

\* The command-driven actuator calls of the worker loop.
CmdCalls == {"takeoff", "land", "preset_command", "preset_command_2", "move_forward"}

\* bandpass_filter, lines 32-37: butter() rejects critical frequencies that are
\* not increasing inside (0, 1); nyq = 0.5 * 125, compared here doubled.
ValidBand(lo, hi) == 0 < lo /\ lo < hi /\ 2 * hi < 125

\* ------------------------------------------------------------------- state

VARIABLES
    mode,        \* MainApplication.mode
    lower,       \* MainApplication.lower
    upper,       \* MainApplication.upper
    started,     \* threads handle_data has started
    flying,      \* the vehicle's status, as check_flying_status reports it
    uipc,        \* the Tk thread: "idle", "toggle" (status read), "call"
    uicall,      \* the controller call the Tk thread is about to make or is in
    worker,      \* per thread: the frame of processing_data
    processor,   \* per thread: its AttentionHandler and the inlet's queue
    hist,        \* per thread: what the thread has done (history, read by no action)
    fn           \* the pure functions applied to drawn inputs

vars == <<mode, lower, upper, started, flying, uipc, uicall, worker, processor, hist, fn>>
sysVars == <<mode, lower, upper, started, flying, uipc, uicall, worker, processor, hist>>

\* The frame of a thread that has not been started.
WorkerInit == [pc |-> "idle", is_fly |-> FALSE, command |-> 0, act |-> "none"]
\* AttentionHandler.__init__, lines 15-28, and process_data's local, line 155.
ProcessorInit ==
    [safe_mode |-> "off", locked |-> FALSE, lower |-> 5, upper |-> 50,
     is_data_coming |-> FALSE, buf |-> 0]
HistInit ==
    [lastCall |-> "none", prevCall |-> "none", cond |-> "ok", exc |-> FALSE,
     exitPath |-> "none", startFly |-> FALSE, cycleAct |-> "none",
     cycleCalls |-> 0, modes |-> {}, stopAtCheck |-> FALSE,
     lastPull |-> "none", stalled |-> "no"]
FnIdle == [pc |-> "off", self |-> DefaultSelf, type |-> "alpha", v1 |-> 0, v2 |-> 0,
           r1 |-> 0, r2 |-> 0, code |-> 0]

\* MainApplication.__init__, lines 36-58: no thread started, the vehicle grounded.
SysInit ==
    /\ mode = 1
    /\ lower = 5
    /\ upper = 50
    /\ started = 0
    /\ flying = FALSE
    /\ uipc = "idle"
    /\ uicall = "none"
    /\ worker = [w \in Workers |-> WorkerInit]
    /\ processor = [w \in Workers |-> ProcessorInit]
    /\ hist = [w \in Workers |-> HistInit]

Init == SysInit /\ fn = FnIdle

\* ----------------------------------------------------------------- helpers

\* The inlet and the figure of thread w exist (AttentionHandler was constructed).
Constructed(w) == worker[w].pc \notin {"idle", "construct"}

\* Thread w is inside a controller call.
InCall(w) == worker[w].pc \in {"call", "emergency", "landing"}

\* Controller calls executing at this moment, over all threads.
InFlight == Cardinality({w \in Workers : InCall(w)}) + (IF uipc = "call" THEN 1 ELSE 0)

\* hist with call `name` appended to thread w's sequence of reader/actuator calls.
Called(w, name) ==
    [hist[w] EXCEPT !.prevCall = hist[w].lastCall, !.lastCall = name]

\* hist of thread w with the record of the cycle that ends cleared.
EndCycle(w) ==
    [hist[w] EXCEPT !.cond = "ok", !.startFly = FALSE, !.cycleAct = "none",
                    !.cycleCalls = 0, !.modes = {}, !.stopAtCheck = FALSE]

\* hist of thread w with actuator call `name` begun in the current cycle.
Acted(w, name) ==
    [Called(w, name) EXCEPT !.cycleAct = name, !.cycleCalls = @ + 1]

\* What an empty pull logs: nothing, or the stalled message, noted with the
\* kind of pull that came before it.
StalledLog(w) ==
    IF ~processor[w].is_data_coming THEN "no"
    ELSE IF hist[w].lastPull = "data" THEN "after_data"
    ELSE IF hist[w].lastPull = "empty" THEN "after_empty"
    ELSE "after_none"

\* TelloController, the status a completed call leaves (the controller is not
\* part of the sources; takeoff leaves the vehicle airborne, a landing grounded).
StatusAfter(name, status) ==
    IF name = "takeoff" THEN TRUE
    ELSE IF name \in {"land", "emergency_land"} THEN FALSE
    ELSE status

\* ------------------------------------------------- the worker: processing_data

\* processing_data, lines 82-83: the handler is constructed from the
\* application's current channel and cutoffs; is_fly = False.
Construct(w) ==
    /\ worker[w].pc = "construct"
    /\ worker' = [worker EXCEPT ![w] = [@ EXCEPT !.pc = "try", !.is_fly = FALSE]]
    /\ processor' = [processor EXCEPT ![w] =
                        [ProcessorInit EXCEPT !.lower = lower, !.upper = upper]]
    /\ UNCHANGED <<mode, lower, upper, started, flying, uipc, uicall, hist, fn>>

\* processing_data, lines 84-87: the loop is entered only with safe_mode "off";
\* otherwise the try block ends at once and the finally clause runs.
TryEnter(w) ==
    /\ worker[w].pc = "try"
    /\ IF processor[w].safe_mode = "off"
       THEN /\ worker' = [worker EXCEPT ![w].pc = "pull"]
            /\ processor' = [processor EXCEPT ![w].is_data_coming = FALSE]
            /\ hist' = hist
       ELSE /\ worker' = [worker EXCEPT ![w].pc = "finally"]
            /\ processor' = processor
            /\ hist' = [hist EXCEPT ![w].exitPath = "stop"]
    /\ UNCHANGED <<mode, lower, upper, started, flying, uipc, uicall, fn>>

\* The empty pull that keeps is_data_coming set: the message at every idle pull.
PullEmptyLevel(w) ==
    /\ worker[w].pc = "pull"
    /\ processor[w].buf = 0
    /\ hist' = [hist EXCEPT ![w] =
                   [Called(w, "pull_chunk") EXCEPT
                       !.stalled = StalledLog(w), !.lastPull = "empty"]]
    /\ UNCHANGED <<mode, lower, upper, started, flying, uipc, uicall, worker, processor, fn>>

\* process_data, lines 158-159 and 187-190: the pull times out with no data;
\* the stalled message is printed if the previous pull had data.
PullEmpty(w) ==
    /\ worker[w].pc = "pull"
    /\ processor[w].buf = 0
    /\ hist' = [hist EXCEPT ![w] =
                   [Called(w, "pull_chunk") EXCEPT
                       !.stalled = StalledLog(w), !.lastPull = "empty"]]
    /\ processor' = [processor EXCEPT ![w].is_data_coming = FALSE]
    /\ UNCHANGED <<mode, lower, upper, started, flying, uipc, uicall, worker, fn>>

\* The command a processed chunk yields.  With zero total power the relative
\* alpha power is 0/0 = nan, every comparison with it is false, and the
\* classification falls through to 4.
ChunkCommand(c, a, b) ==
    IF c = "zero_power" THEN 4 ELSE CommandOf(DefaultSelf, a, b)

\* Whether lines 160-173 raise on the chunk: butter() raises on an invalid band;
\* on a chunk shorter than the window, or with no bin in a band, welch and
\* simps either go on with what they have or raise (freqs[1] of one bin).
ChunkRaises(w, c, raises) ==
    \/ ~ValidBand(processor[w].lower, processor[w].upper)
    \/ (c \in {"short", "degenerate"} /\ raises)

\* What the processing of one pulled chunk can come to, over the chunks the
\* sensor can deliver: an exception, or a command.
ChunkOutcomes(w) ==
    {[raised |-> ChunkRaises(w, c, raises),
      cond |-> IF ValidBand(processor[w].lower, processor[w].upper) THEN c
               ELSE "invalid_band",
      command |-> IF ChunkRaises(w, c, raises) THEN 0 ELSE ChunkCommand(c, a, b)] :
        c \in ChunkConds, a \in AlphaInputs, b \in BetaInputs, raises \in BOOLEAN}

\* process_data, lines 158-186, up to the yield: a chunk is pulled, filtered,
\* its band powers are scaled and, unless locked, classified and yielded.
PullChunk(w) ==
    /\ worker[w].pc = "pull"
    /\ processor[w].buf > 0
    /\ \E out \in ChunkOutcomes(w) :
         LET h == [Called(w, "pull_chunk") EXCEPT !.cond = out.cond, !.stalled = "no",
                                                  !.lastPull = "data",
                                                  !.modes = {mode}]
         IN  IF out.raised
             THEN /\ worker' = [worker EXCEPT ![w].pc = "except"]
                  /\ processor' = [processor EXCEPT ![w].buf = @ - 1]
                  /\ hist' = [hist EXCEPT ![w] = [h EXCEPT !.exitPath = "exception"]]
             ELSE IF processor[w].locked
             THEN /\ worker' = worker
                  /\ processor' = [processor EXCEPT ![w].buf = @ - 1,
                                                    ![w].is_data_coming = TRUE]
                  /\ hist' = [hist EXCEPT ![w] = [h EXCEPT !.cond = "ok", !.modes = {}]]
             ELSE /\ worker' = [worker EXCEPT ![w].pc = "check_safe",
                                              ![w].command = out.command]
                  /\ processor' = [processor EXCEPT ![w].buf = @ - 1]
                  /\ hist' = [hist EXCEPT ![w] =
                                 [h EXCEPT !.startFly = worker[w].is_fly,
                                           !.cycleAct = "none"]]
    /\ UNCHANGED <<mode, lower, upper, started, flying, uipc, uicall, fn>>

\* process_data, line 158: the inlet's pull itself raises (the stream is lost);
\* the generator's finally runs and the exception reaches processing_data.
PullError(w) ==
    /\ worker[w].pc = "pull"
    /\ worker' = [worker EXCEPT ![w].pc = "except"]
    /\ hist' = [hist EXCEPT ![w] =
                   [Called(w, "pull_chunk") EXCEPT !.exitPath = "exception"]]
    /\ UNCHANGED <<mode, lower, upper, started, flying, uipc, uicall, processor, fn>>

\* process_data, lines 179-180: update_plot draws on the figure; once the
\* figure has been closed (the handlers that close it set safe_mode), the
\* backend may raise from draw().
PlotError(w) ==
    /\ worker[w].pc = "pull"
    /\ processor[w].buf > 0
    /\ processor[w].safe_mode = "on"
    /\ ~processor[w].locked
    /\ worker' = [worker EXCEPT ![w].pc = "except"]
    /\ processor' = [processor EXCEPT ![w].buf = @ - 1]
    /\ hist' = [hist EXCEPT ![w] =
                   [Called(w, "pull_chunk") EXCEPT !.exitPath = "exception"]]
    /\ UNCHANGED <<mode, lower, upper, started, flying, uipc, uicall, fn>>

\* process_data, lines 191-194: a KeyboardInterrupt ends the generator, and the
\* for loop of processing_data with it.
PullInterrupt(w) ==
    /\ worker[w].pc = "pull"
    /\ worker' = [worker EXCEPT ![w].pc = "finally"]
    /\ hist' = [hist EXCEPT ![w] =
                   [Called(w, "pull_chunk") EXCEPT !.exitPath = "normal"]]
    /\ UNCHANGED <<mode, lower, upper, started, flying, uipc, uicall, processor, fn>>

\* The check of the stop flag that leaves the yielded command as it is.
CheckSafeKeep(w) ==
    /\ worker[w].pc = "check_safe"
    /\ worker' = [worker EXCEPT ![w].pc = "dispatch"]
    /\ hist' = [hist EXCEPT ![w].cond = "ok",
                            ![w].stopAtCheck = (processor[w].safe_mode = "on")]
    /\ UNCHANGED <<mode, lower, upper, started, flying, uipc, uicall, processor, fn>>

\* processing_data, lines 88-89: the stop flag is read once per command.
CheckSafe(w) ==
    /\ worker[w].pc = "check_safe"
    /\ worker' = [worker EXCEPT
                     ![w].pc = "dispatch",
                     ![w].command = IF processor[w].safe_mode = "on" THEN -1 ELSE @]
    /\ hist' = [hist EXCEPT ![w].cond = "ok",
                            ![w].stopAtCheck = (processor[w].safe_mode = "on")]
    /\ UNCHANGED <<mode, lower, upper, started, flying, uipc, uicall, processor, fn>>

\* The dispatch with the tracked state forgotten: command 2 takes off too.
DispatchAnyCode(w) ==
    /\ worker[w].pc = "dispatch"
    /\ IF worker[w].command \in {1, 2} /\ ~worker[w].is_fly
       THEN /\ worker' = [worker EXCEPT ![w].pc = "call", ![w].is_fly = TRUE,
                                        ![w].act = "takeoff"]
            /\ hist' = [hist EXCEPT ![w] =
                           Acted(w, "takeoff")]
       ELSE /\ worker' = [worker EXCEPT ![w].pc = "resume"]
            /\ hist' = hist
    /\ UNCHANGED <<mode, lower, upper, started, flying, uipc, uicall, processor, fn>>

\* processing_data, lines 91-105: the branch on the command and on is_fly.
\* Takeoff (lines 94-96) is called with no flush before it; landing and the
\* maneuvers start with clear_buffer.
Dispatch(w) ==
    /\ worker[w].pc = "dispatch"
    /\ IF worker[w].command = 1 /\ ~worker[w].is_fly
       THEN /\ worker' = [worker EXCEPT ![w].pc = "call", ![w].is_fly = TRUE,
                                        ![w].act = "takeoff"]
            /\ hist' = [hist EXCEPT ![w] =
                           Acted(w, "takeoff")]
       ELSE IF worker[w].command = 1
       THEN /\ worker' = [worker EXCEPT ![w].pc = "clear_buffer", ![w].act = "land"]
            /\ hist' = [hist EXCEPT ![w] = Called(w, "clear_buffer")]
       ELSE IF worker[w].command = 2 /\ worker[w].is_fly
       THEN /\ worker' = [worker EXCEPT ![w].pc = "mode1"]
            /\ hist' = hist
       ELSE /\ worker' = [worker EXCEPT ![w].pc = "resume"]
            /\ hist' = hist
    /\ UNCHANGED <<mode, lower, upper, started, flying, uipc, uicall, processor, fn>>

\* processing_data, lines 107-108: the first read of self.mode.
ReadMode1(w) ==
    /\ worker[w].pc = "mode1"
    /\ IF mode = 1
       THEN /\ worker' = [worker EXCEPT ![w].pc = "clear_buffer",
                                        ![w].act = "preset_command"]
            /\ hist' = [hist EXCEPT ![w] = Called(w, "clear_buffer")]
       ELSE /\ worker' = [worker EXCEPT ![w].pc = "mode2"]
            /\ hist' = hist
    /\ UNCHANGED <<mode, lower, upper, started, flying, uipc, uicall, processor, fn>>

\* The second read of self.mode with the branches of lines 111-117 exchanged.
ReadMode2Swapped(w) ==
    /\ worker[w].pc = "mode2"
    /\ worker' = [worker EXCEPT
                     ![w].pc = "clear_buffer",
                     ![w].act = IF mode = 2 THEN "move_forward" ELSE "preset_command_2"]
    /\ hist' = [hist EXCEPT ![w] = Called(w, "clear_buffer")]
    /\ UNCHANGED <<mode, lower, upper, started, flying, uipc, uicall, processor, fn>>

\* processing_data, lines 111-117: the second read of self.mode.
ReadMode2(w) ==
    /\ worker[w].pc = "mode2"
    /\ worker' = [worker EXCEPT
                     ![w].pc = "clear_buffer",
                     ![w].act = IF mode = 2 THEN "preset_command_2" ELSE "move_forward"]
    /\ hist' = [hist EXCEPT ![w] = Called(w, "clear_buffer")]
    /\ UNCHANGED <<mode, lower, upper, started, flying, uipc, uicall, processor, fn>>

\* clear_buffer, lines 148-149: one pull of the drain loop finds a chunk.
ClearBufferDrain(w) ==
    /\ worker[w].pc = "clear_buffer"
    /\ processor[w].buf > 0
    /\ processor' = [processor EXCEPT ![w].buf = @ - 1]
    /\ UNCHANGED <<mode, lower, upper, started, flying, uipc, uicall, worker, hist, fn>>

\* clear_buffer, lines 151-152, and the statement after it: the pull is empty,
\* the drain ends; the flush before an actuation is followed by the call
\* (for land: is_fly = False first, line 101), the flush after it ends the cycle.
ClearBufferDone(w) ==
    /\ worker[w].pc = "clear_buffer"
    /\ processor[w].buf = 0
    /\ IF worker[w].act # "none"
       THEN /\ worker' = [worker EXCEPT
                             ![w].pc = "call",
                             ![w].is_fly = IF worker[w].act = "land" THEN FALSE ELSE @]
            /\ hist' = [hist EXCEPT ![w] =
                           Acted(w, worker[w].act)]
       ELSE /\ worker' = [worker EXCEPT ![w].pc = "resume"]
            /\ hist' = hist
    /\ UNCHANGED <<mode, lower, upper, started, flying, uipc, uicall, processor, fn>>

\* clear_buffer, line 149: the inlet's pull raises.
ClearBufferError(w) ==
    /\ worker[w].pc = "clear_buffer"
    /\ worker' = [worker EXCEPT ![w].pc = "except", ![w].act = "none"]
    /\ hist' = [hist EXCEPT ![w].exitPath = "exception"]
    /\ UNCHANGED <<mode, lower, upper, started, flying, uipc, uicall, processor, fn>>

\* Lines 96-97, 102-103, 109-110, 114-115, 118-119: the actuator call returns
\* and clear_buffer is called.
CallReturn(w) ==
    /\ worker[w].pc = "call"
    /\ flying' = StatusAfter(worker[w].act, flying)
    /\ worker' = [worker EXCEPT ![w].pc = "clear_buffer", ![w].act = "none"]
    /\ hist' = [hist EXCEPT ![w] = Called(w, "clear_buffer")]
    /\ UNCHANGED <<mode, lower, upper, started, uipc, uicall, processor, fn>>

\* The actuator call of the loop raises (a failed command).
CallRaise(w) ==
    /\ worker[w].pc = "call"
    /\ worker' = [worker EXCEPT ![w].pc = "except", ![w].act = "none"]
    /\ hist' = [hist EXCEPT ![w].exitPath = "exception"]
    /\ UNCHANGED <<mode, lower, upper, started, flying, uipc, uicall, processor, fn>>

\* process_data, line 186, after the yield returns: is_data_coming = True, and
\* the generator loops to the next pull.
Resume(w) ==
    /\ worker[w].pc = "resume"
    /\ worker' = [worker EXCEPT ![w].pc = "pull"]
    /\ processor' = [processor EXCEPT ![w].is_data_coming = TRUE]
    /\ hist' = [hist EXCEPT ![w] = EndCycle(w)]
    /\ UNCHANGED <<mode, lower, upper, started, flying, uipc, uicall, fn>>

\* processing_data, lines 122-125: the handler calls emergency_land.
Except(w) ==
    /\ worker[w].pc = "except"
    /\ worker' = [worker EXCEPT ![w].pc = "emergency"]
    /\ hist' = [hist EXCEPT ![w] =
                   [Called(w, "emergency_land") EXCEPT
                       !.cond = "ok", !.startFly = FALSE, !.cycleAct = "none",
                       !.cycleCalls = 0, !.modes = {}, !.stopAtCheck = FALSE]]
    /\ UNCHANGED <<mode, lower, upper, started, flying, uipc, uicall, processor, fn>>

\* emergency_land returns; the exception was handled.
EmergencyReturn(w) ==
    /\ worker[w].pc = "emergency"
    /\ flying' = StatusAfter("emergency_land", flying)
    /\ worker' = [worker EXCEPT ![w].pc = "finally"]
    /\ UNCHANGED <<mode, lower, upper, started, uipc, uicall, processor, hist, fn>>

\* emergency_land raises inside the except clause: the new exception is
\* pending while the finally clause runs.
EmergencyRaise(w) ==
    /\ worker[w].pc = "emergency"
    /\ worker' = [worker EXCEPT ![w].pc = "finally"]
    /\ hist' = [hist EXCEPT ![w].exc = TRUE]
    /\ UNCHANGED <<mode, lower, upper, started, flying, uipc, uicall, processor, fn>>

\* The finally clause without its landing.
FinallyNoLand(w) ==
    /\ worker[w].pc = "finally"
    /\ worker' = [worker EXCEPT ![w].pc = "done"]
    /\ UNCHANGED <<mode, lower, upper, started, flying, uipc, uicall, processor, hist, fn>>

\* processing_data, lines 126-128: the finally clause calls land.
Finally(w) ==
    /\ worker[w].pc = "finally"
    /\ worker' = [worker EXCEPT ![w].pc = "landing"]
    /\ hist' = [hist EXCEPT ![w] = Called(w, "land")]
    /\ UNCHANGED <<mode, lower, upper, started, flying, uipc, uicall, processor, fn>>

\* The final land returns; a pending exception leaves processing_data with it.
LandingReturn(w) ==
    /\ worker[w].pc = "landing"
    /\ flying' = StatusAfter("land", flying)
    /\ worker' = [worker EXCEPT ![w].pc = "done"]
    /\ UNCHANGED <<mode, lower, upper, started, uipc, uicall, processor, hist, fn>>

\* The final land raises: the exception leaves processing_data.
LandingRaise(w) ==
    /\ worker[w].pc = "landing"
    /\ worker' = [worker EXCEPT ![w].pc = "done"]
    /\ hist' = [hist EXCEPT ![w].exc = TRUE]
    /\ UNCHANGED <<mode, lower, upper, started, flying, uipc, uicall, processor, fn>>

\* The sensor source queues a chunk in the inlet of thread w.
Enqueue(w) ==
    /\ Constructed(w)
    /\ worker[w].pc # "done"
    /\ processor[w].buf < MaxQueue
    /\ processor' = [processor EXCEPT ![w].buf = @ + 1]
    /\ UNCHANGED <<mode, lower, upper, started, flying, uipc, uicall, worker, hist, fn>>

\* ------------------------------------------- the Tk thread and the figure

\* handle_data, lines 69-78: the cutoffs are stored and a new thread is started.
HandleData(band) ==
    /\ uipc = "idle"
    /\ started < MaxWorkers
    /\ lower' = band[1]
    /\ upper' = band[2]
    /\ started' = started + 1
    /\ worker' = [worker EXCEPT ![started + 1].pc = "construct"]
    /\ UNCHANGED <<mode, flying, uipc, uicall, processor, hist, fn>>

\* mode_change, lines 66-68.
ModeChange(m) ==
    /\ uipc = "idle"
    /\ mode' = m
    /\ hist' = [w \in Workers |->
                   IF hist[w].modes = {} THEN hist[w]
                   ELSE [hist[w] EXCEPT !.modes = @ \cup {m}]]
    /\ UNCHANGED <<lower, upper, started, flying, uipc, uicall, worker, processor, fn>>

\* on_close, lines 62-64: the figure of thread w is closed.
OnClose(w) ==
    /\ uipc = "idle"
    /\ Constructed(w)
    /\ processor' = [processor EXCEPT ![w].safe_mode = "on"]
    /\ UNCHANGED <<mode, lower, upper, started, flying, uipc, uicall, worker, hist, fn>>

\* The key handler with a second key that releases the stop.
OnKeyPressRelease(w, key) ==
    /\ uipc = "idle"
    /\ Constructed(w)
    /\ processor' = [processor EXCEPT
                        ![w].safe_mode = IF key = "escape" THEN "on" ELSE "off"]
    /\ UNCHANGED <<mode, lower, upper, started, flying, uipc, uicall, worker, hist, fn>>

\* on_key_press, lines 66-70: escape sets the flag of this handler, and
\* plt.close('all') closes every figure, whose close_event runs on_close.
OnKeyPress(w, key) ==
    /\ uipc = "idle"
    /\ Constructed(w)
    /\ IF key = "escape"
       THEN processor' = [v \in Workers |->
                IF v = w \/ Constructed(v)
                THEN [processor[v] EXCEPT !.safe_mode = "on"]
                ELSE processor[v]]
       ELSE processor' = processor
    /\ UNCHANGED <<mode, lower, upper, started, flying, uipc, uicall, worker, hist, fn>>

\* toggle_fly, line 61: the status is read and the call to make is chosen.
ToggleFlyCheck ==
    /\ uipc = "idle"
    /\ uipc' = "toggle"
    /\ uicall' = IF flying THEN "land" ELSE "takeoff"
    /\ UNCHANGED <<mode, lower, upper, started, flying, worker, processor, hist, fn>>

\* toggle_fly, lines 62-64: land or takeoff is called.
ToggleFlyCall ==
    /\ uipc = "toggle"
    /\ uipc' = "call"
    /\ UNCHANGED <<mode, lower, upper, started, flying, uicall, worker, processor, hist, fn>>

\* The bindings of lines 48-58: the controller call a key makes.
BoundCall(key) ==
    IF key = "Up" THEN "move_forward" ELSE "flip_left"

\* Lines 48-58: a bound key calls the controller from the Tk thread.
KeyBinding(key) ==
    /\ uipc = "idle"
    /\ uipc' = "call"
    /\ uicall' = BoundCall(key)
    /\ UNCHANGED <<mode, lower, upper, started, flying, worker, processor, hist, fn>>

\* The call of the Tk thread ends, returning or raising (Tk reports an
\* exception of a callback and goes on).
UIReturn(ok) ==
    /\ uipc = "call"
    /\ uipc' = "idle"
    /\ uicall' = "none"
    /\ flying' = IF ok THEN StatusAfter(uicall, flying) ELSE flying
    /\ UNCHANGED <<mode, lower, upper, started, worker, processor, hist, fn>>

\* ---------------------------------------------------------- specifications

WorkerStep(w) ==
    \/ Construct(w)
    \/ TryEnter(w)
    \/ PullEmpty(w)
    \/ PullChunk(w)
    \/ CheckSafe(w)
    \/ Dispatch(w)
    \/ ReadMode1(w)
    \/ ReadMode2(w)
    \/ ClearBufferDrain(w)
    \/ ClearBufferDone(w)
    \/ CallReturn(w)
    \/ Resume(w)
    \/ Except(w)
    \/ EmergencyReturn(w)
    \/ Finally(w)
    \/ LandingReturn(w)

\* What may go wrong in a thread: a failed call, a lost stream, an interrupt.
WorkerFault(w) ==
    \/ PullError(w)
    \/ PlotError(w)
    \/ PullInterrupt(w)
    \/ ClearBufferError(w)
    \/ CallRaise(w)
    \/ EmergencyRaise(w)
    \/ LandingRaise(w)

\* What the Tk thread does besides starting threads.
UIStep ==
    \/ \E m \in ModeInputs : ModeChange(m)
    \/ \E w \in Workers : OnClose(w)
    \/ \E w \in Workers, key \in FigureKeys : OnKeyPress(w, key)
    \/ ToggleFlyCheck
    \/ ToggleFlyCall
    \/ \E key \in BoundKeys : KeyBinding(key)
    \/ \E ok \in BOOLEAN : UIReturn(ok)

\* The first configuration submission of a session.
FirstSubmission(band) == started = 0 /\ HandleData(band)

\* The threads share nothing that a thread reads but self.mode, and the
\* controller: what one thread's run does is explored with one thread started.
Next ==
    \/ \E w \in Workers : WorkerStep(w)
    \/ \E w \in Workers : WorkerFault(w)
    \/ \E w \in Workers : Enqueue(w)
    \/ UIStep
    \/ \E band \in BandInputs : FirstSubmission(band)

Spec == Init /\ [][Next]_vars

\* Every thread handle_data can start, in normal operation beside the Tk
\* thread's space key: the band is valid, the mode selector is left at 1, the
\* calls return and no stop is raised.
NextThreads ==
    \/ \E w \in Workers : Construct(w)
    \/ \E w \in Workers : TryEnter(w)
    \/ \E w \in Workers : PullEmpty(w)
    \/ \E w \in Workers : PullChunk(w)
    \/ \E w \in Workers : CheckSafe(w)
    \/ \E w \in Workers : Dispatch(w)
    \/ \E w \in Workers : ReadMode1(w)
    \/ \E w \in Workers : ClearBufferDrain(w)
    \/ \E w \in Workers : ClearBufferDone(w)
    \/ \E w \in Workers : CallReturn(w)
    \/ \E w \in Workers : Resume(w)
    \/ \E w \in Workers : Enqueue(w)
    \/ HandleData(<<5, 50>>)
    \/ ToggleFlyCheck
    \/ ToggleFlyCall
    \/ UIReturn(TRUE)

SpecThreads == Init /\ [][NextThreads]_vars

\* One thread under a fair scheduler, with a sensor that keeps delivering:
\* a step of the thread that stays possible is eventually taken.  Nothing
\* obliges a call to fail or an interrupt to arrive.
SpecFair ==
    /\ Init
    /\ [][Next]_vars
    /\ \A w \in Workers : WF_vars(WorkerStep(w))
    /\ \A w \in Workers : WF_vars(Enqueue(w))

\* ------------------------------------------- the pure functions on inputs

\* Threshold configurations: the defaults of __init__, and thresholds above
\* the guards of signal_scaling (1 for alpha, 50 for beta).
ThresholdConfigs ==
    {[alpha_threshold |-> a, beta_threshold |-> b] :
        a \in {alpha_threshold, 2 * alpha_threshold},
        b \in {beta_threshold, BetaGuard + Unit}}

\* Values around the multiples of a threshold, in tenths, so that the 2T and
\* 4T breakpoints are met exactly and from both sides.
ValuesAround(T) ==
    {v \in {m * T + d * Tenth : m \in 0..MaxMult, d \in (0 - MaxDelta)..MaxDelta} : v >= 0}
ValuesFor(self) == ValuesAround(self.alpha_threshold) \cup ValuesAround(self.beta_threshold)

FnInit ==
    /\ SysInit
    /\ \E self \in ThresholdConfigs, type \in {"alpha", "beta"} :
         \E a \in ValuesFor(self), b \in ValuesFor(self) :
            fn = [pc |-> "drawn", self |-> self, type |-> type, v1 |-> a, v2 |-> b,
                  r1 |-> 0, r2 |-> 0, code |-> 0]

\* signal_scaling applied to both drawn values.
FnScale ==
    /\ fn.pc = "drawn"
    /\ fn' = [fn EXCEPT !.pc = "scaled",
                        !.r1 = signal_scaling(fn.self, fn.type, fn.v1),
                        !.r2 = signal_scaling(fn.self, fn.type, fn.v2)]
    /\ UNCHANGED sysVars

\* threshold_based_classification applied to the drawn values as
\* (alpha_power, beta_power).
FnClassify ==
    /\ fn.pc = "drawn"
    /\ fn' = [fn EXCEPT !.pc = "classified",
                        !.code = threshold_based_classification(fn.self, fn.v1, fn.v2)]
    /\ UNCHANGED sysVars

FnNext == FnScale \/ FnClassify

SpecFn == FnInit /\ [][FnNext]_vars

\* ------------------------------------------------------------------ claims

\* Thread w is inside the command loop of processing_data.
InLoop(w) ==
    worker[w].pc \in {"pull", "check_safe", "dispatch", "mode1", "mode2",
                      "clear_buffer", "call", "resume"}

\* Thread w is inside a cycle: a command was yielded and its handling has not ended.
InCycle(w) == InLoop(w) /\ worker[w].pc # "pull"

\* C1: every actuator call the loop makes for a command has clear_buffer as the
\* call just before it and, when it returns, as the call just after it.
C1_FlushAroundActuation ==
    \A w \in Workers :
        /\ worker[w].pc = "call" => hist[w].prevCall = "clear_buffer"
        /\ (InLoop(w) /\ hist[w].prevCall \in CmdCalls) => hist[w].lastCall = "clear_buffer"

\* C2: once the stop flag of a thread's handler is set, the thread begins no
\* command-driven actuator call (takeoff, land, preset maneuver, move).
C2_NoCallAfterStop ==
    [][\A w \in Workers :
          (worker[w].pc # "call" /\ worker'[w].pc = "call")
              => processor[w].safe_mode = "off"]_vars

\* C3: a run of processing_data that has ended made controller.land() its last
\* call, whichever way the try block was left.
C3_LandLast ==
    \A w \in Workers : worker[w].pc = "done" => hist[w].lastCall = "land"

\* A run ended after an exception in a cycle, its last two calls being
\* emergency_land and land.
C3_Witness ==
    \E w \in Workers :
        /\ worker[w].pc = "done"
        /\ hist[w].exitPath = "exception"
        /\ hist[w].prevCall = "emergency_land"
        /\ hist[w].lastCall = "land"

\* C4: a stop raised while the thread is in its command loop leads, under fair
\* scheduling, to the thread leaving the loop, landing and terminating.
C4_StopLeadsToExit ==
    \A w \in Workers :
        (InLoop(w) /\ processor[w].safe_mode = "on") ~> (worker[w].pc = "done")

\* C5: within a cycle the tracked flight state differs from the one the cycle
\* started with only for command 1, with takeoff issued when it became airborne
\* and land when it became grounded; command 1 does change it by the end of the
\* cycle; and a cycle that is grounded at both ends has made no actuator call.
C5_FlightState ==
    \A w \in Workers :
        InCycle(w) =>
            /\ worker[w].is_fly # hist[w].startFly =>
                  /\ worker[w].command = 1
                  /\ hist[w].cycleAct = IF worker[w].is_fly THEN "takeoff" ELSE "land"
            /\ (worker[w].pc = "resume" /\ worker[w].command = 1) =>
                  worker[w].is_fly # hist[w].startFly
            /\ (worker[w].pc = "resume" /\ ~hist[w].startFly /\ ~worker[w].is_fly) =>
                  hist[w].cycleAct = "none"

\* A cycle of command 1 that started airborne ends grounded, land issued.
C5_Witness ==
    \E w \in Workers :
        /\ worker[w].pc = "resume"
        /\ worker[w].command = 1
        /\ hist[w].startFly
        /\ ~worker[w].is_fly
        /\ hist[w].cycleAct = "land"

\* C6: at most one call on the shared controller is executing at any time, over
\* the worker threads and the Tk thread.
C6_OneCallAtATime == InFlight <= 1

\* C7: the classification returns one of the codes 1..4, returns 1 whenever
\* alpha_power exceeds its threshold, whatever beta_power is, and never 3.
C7_Classification ==
    fn.pc = "classified" =>
        /\ fn.code \in 1..4
        /\ fn.v1 > fn.self.alpha_threshold => fn.code = 1
        /\ fn.code # 3

\* Both powers above their thresholds, classified 1.
C7_Witness ==
    /\ fn.pc = "classified"
    /\ fn.v1 > fn.self.alpha_threshold
    /\ fn.v2 > fn.self.beta_threshold
    /\ fn.code = 1

\* C8: an exception raised in a cycle is answered by emergency_land, and no
\* exception, of the cycle, of emergency_land or of the final land, leaves
\* processing_data.
C8_NoEscape ==
    \A w \in Workers :
        (worker[w].pc = "done" /\ hist[w].exitPath = "exception") =>
            /\ hist[w].prevCall = "emergency_land"
            /\ ~hist[w].exc

\* C9: a chunk with a local-recoverable processing error (too short, no bin in
\* the band, zero total power, invalid band) is skipped: nothing is yielded for
\* it, the session goes on and the thread is at its next pull.
C9_SkipCycle ==
    \A w \in Workers :
        hist[w].cond # "ok" => (worker[w].pc = "pull" /\ hist[w].exitPath = "none")

\* The piece of the scaling curve a value falls on: 1 on (2T, 4T), 2 above 4T,
\* 0 where the value is left as it is (up to 2T, and 4T itself).
Piece(T, v) == IF 2 * T < v /\ v < 4 * T THEN 1 ELSE IF 4 * T < v THEN 2 ELSE 0
ThresholdOf(self, type) ==
    IF type = "beta" THEN self.beta_threshold ELSE self.alpha_threshold

\* C10 as stated: signal_scaling is monotone non-decreasing in its value.
C10_Monotone ==
    (fn.pc = "scaled" /\ fn.v1 <= fn.v2) => fn.r1 <= fn.r2

\* C10 as amended: signal_scaling is monotone non-decreasing over values that
\* fall on the same piece of the curve.
C10_MonotoneOnPiece ==
    (/\ fn.pc = "scaled"
     /\ fn.v1 <= fn.v2
     /\ Piece(ThresholdOf(fn.self, fn.type), fn.v1)
          = Piece(ThresholdOf(fn.self, fn.type), fn.v2))
        => fn.r1 <= fn.r2

\* Two beta values on the halving piece, scaled in their order.
C10_Witness ==
    /\ fn.pc = "scaled"
    /\ fn.type = "beta"
    /\ fn.v1 < fn.v2
    /\ Piece(fn.self.beta_threshold, fn.v1) = 1
    /\ Piece(fn.self.beta_threshold, fn.v2) = 1
    /\ fn.r1 < fn.r2

\* -------------------------------------------------- non_maximum_suppression

\* Bins are numbered from 1 here and from 0 in the code: bin i is psd[i - 1].

\* scipy.signal.find_peaks(psd) with no condition, line 95: the local maxima,
\* a flat top counted once at its middle bin; the first and the last bin are
\* never peaks.
find_peaks(psd) ==
    {(l + r) \div 2 : <<l, r>> \in
        {p \in (2..(Len(psd) - 1)) \X (2..(Len(psd) - 1)) :
            /\ p[1] <= p[2]
            /\ \A k \in p[1]..p[2] : psd[k] = psd[p[1]]
            /\ psd[p[1] - 1] < psd[p[1]]
            /\ psd[p[2] + 1] < psd[p[2]]}}

MaxOf(S) == CHOOSE x \in S : \A y \in S : y <= x

\* Lines 98-100: the slice psd[start:end] of a peak, start = max(0, peak - r)
\* and end = min(len(psd), peak + r); the slice leaves out its end, so bin
\* peak + r is not in it.
NmsWindow(psd, peak, window_size) ==
    {k \in 1..Len(psd) : peak - window_size <= k /\ k <= peak + window_size - 1}

RECURSIVE NmsFrom(_, _, _)
\* Lines 96-101: the loop over the peaks in their order, from bin i on.
NmsFrom(psd, window_size, i) ==
    IF i > Len(psd) THEN <<>>
    ELSE (IF /\ i \in find_peaks(psd)
             /\ psd[i] = MaxOf({psd[k] : k \in NmsWindow(psd, i, window_size)})
          THEN <<i>> ELSE <<>>) \o NmsFrom(psd, window_size, i + 1)

\* non_maximum_suppression(self, psd, window_size), lines 94-102.
non_maximum_suppression(psd, window_size) == NmsFrom(psd, window_size, 1)

\* Spectra of every length up to MaxLen.
SpectrumInputs == UNION {[1..n -> 0..MaxPower] : n \in 0..MaxLen}

NmsInit ==
    /\ SysInit
    /\ \E psd \in SpectrumInputs, r \in 1..MaxRadius :
          fn = [pc |-> "drawn", psd |-> psd, window_size |-> r, peaks |-> <<>>]

\* non_maximum_suppression applied to the drawn spectrum.
NmsApply ==
    /\ fn.pc = "drawn"
    /\ fn' = [fn EXCEPT !.pc = "selected",
                        !.peaks = non_maximum_suppression(fn.psd, fn.window_size)]
    /\ UNCHANGED sysVars

SpecNms == NmsInit /\ [][NmsApply]_vars

\* C11: the selected bins are in strictly increasing order, and no power in the
\* window [i - r, i + r] of a selected bin i, clipped to the spectrum, is greater
\* than the power at i.
C11_Nms ==
    fn.pc = "selected" =>
        /\ \A k \in 1..(Len(fn.peaks) - 1) : fn.peaks[k] < fn.peaks[k + 1]
        /\ \A k \in 1..Len(fn.peaks) :
              \A j \in 1..Len(fn.psd) :
                  (fn.peaks[k] - fn.window_size <= j /\ j <= fn.peaks[k] + fn.window_size)
                      => fn.psd[j] <= fn.psd[fn.peaks[k]]

\* ---------------------------------------------------------------------------
\* The maneuver that processing_data, lines 107-119, selects for a mode value.
ManeuverFor(m) ==
    IF m = 1 THEN "preset_command"
    ELSE IF m = 2 THEN "preset_command_2"
    ELSE "move_forward"

\* C12: a cycle with command code 2 whose mode stayed at one value m issues,
\* when it began airborne, exactly one actuator call, the maneuver of m, and
\* is_fly stays True; when it began on the ground it makes no actuator call
\* and no flush.
C12_BetaDominant ==
    \A w \in Workers :
        /\ (/\ worker[w].pc = "call"
            /\ worker[w].command = 2
            /\ Cardinality(hist[w].modes) = 1)
           => /\ hist[w].startFly
              /\ worker[w].is_fly
              /\ hist[w].cycleCalls = 1
              /\ \A m \in hist[w].modes : worker[w].act = ManeuverFor(m)
        /\ (worker[w].pc = "resume" /\ worker[w].command = 2)
           => IF hist[w].startFly
              THEN /\ worker[w].is_fly
                   /\ Cardinality(hist[w].modes) = 1
                      => /\ hist[w].cycleCalls = 1
                         /\ \A m \in hist[w].modes :
                                hist[w].cycleAct = ManeuverFor(m)
              ELSE /\ ~worker[w].is_fly
                   /\ hist[w].cycleCalls = 0
                   /\ hist[w].cycleAct = "none"
                   /\ hist[w].lastCall = "pull_chunk"

\* A completed airborne cycle with command code 2 under mode 2.
C12_Witness ==
    \E w \in Workers :
        /\ worker[w].pc = "resume"
        /\ worker[w].command = 2
        /\ hist[w].startFly
        /\ hist[w].modes = {2}
        /\ hist[w].cycleAct = "preset_command_2"

\* ---------------------------------------------------------------------------
\* The reference curve the claim states: 0.25v + 1 above 4T, 0.5v + 1 above 2T
\* up to and including 4T, v otherwise; then the smaller of that and T + 1 when
\* the band's guard holds.
scale(self, type, v) ==
    LET T == ThresholdOf(self, type)
        guard == IF type = "beta" THEN BetaGuard < T ELSE AlphaGuard < T
        v2 == IF v > 4 * T THEN v \div 4 + Unit
              ELSE IF v > 2 * T THEN v \div 2 + Unit
              ELSE v
    IN  IF guard /\ v2 > T + Unit THEN T + Unit ELSE v2

\* C13: signal_scaling returns the reference curve's value for every value
\* and threshold, the breakpoints 2T and 4T included.
C13_MatchesReference ==
    fn.pc = "scaled" =>
        /\ fn.r1 = scale(fn.self, fn.type, fn.v1)
        /\ fn.r2 = scale(fn.self, fn.type, fn.v2)

\* ---------------------------------------------------------------------------
\* C14: a cycle that finds the stop flag set at its check carries command -1,
\* and a cycle with command -1 or 4 makes no actuator call and no flush and
\* leaves is_fly as it was, on the ground and in the air.
C14_AbortAndNeither ==
    \A w \in Workers :
        /\ hist[w].stopAtCheck => worker[w].command = -1
        /\ (InCycle(w) /\ worker[w].pc \notin {"check_safe", "dispatch", "resume"})
           => worker[w].command \notin {-1, 4}
        /\ (worker[w].pc = "resume" /\ worker[w].command \in {-1, 4})
           => /\ hist[w].cycleCalls = 0
              /\ hist[w].cycleAct = "none"
              /\ hist[w].lastCall = "pull_chunk"
              /\ worker[w].is_fly = hist[w].startFly

\* An airborne cycle that found the flag set and ended without a call.
C14_Witness ==
    \E w \in Workers :
        /\ worker[w].pc = "resume"
        /\ hist[w].stopAtCheck
        /\ worker[w].command = -1
        /\ hist[w].startFly
        /\ worker[w].is_fly

\* ---------------------------------------------------------------------------
\* C15: the stalled message is logged on an empty pull only when the pull
\* before it was non-empty: never after another empty pull, never before the
\* first non-empty pull.
C15_EdgeTriggered ==
    \A w \in Workers : hist[w].stalled \in {"no", "after_data"}

\* An empty pull that logged the message, the pull before it having had data.
C15_Witness ==
    \E w \in Workers :
        /\ hist[w].stalled = "after_data"
        /\ hist[w].lastPull = "empty"
        /\ worker[w].pc = "pull"

\* ---------------------------------------------------------------------------
\* C16: every call of clear_buffer terminates, also while the source keeps
\* enqueuing chunks during the drain.
C16_FlushTerminates ==
    \A w \in Workers :
        (worker[w].pc = "clear_buffer") ~> (worker[w].pc # "clear_buffer")

C18_TrackedIsActual ==
    \A w \in Workers : worker[w].pc = "pull" => worker[w].is_fly = flying

\* ---------------------------------------------------------------------------
\* C19: the maneuver an airborne worker dispatches for command code 2 is the
\* one selected by a value that mode held at some moment of that cycle; with
\* mode taking only the values 1 and 2, move_forward is never issued.
C19_ManeuverOfHeldMode ==
    \A w \in Workers :
        (worker[w].pc = "call" /\ worker[w].command = 2)
            => \E m \in hist[w].modes : worker[w].act = ManeuverFor(m)

====
